---- MODULE Spec2Model ----
(***************************************************************************)
(* MIDI SysEx bootloader (firmware/bootloader.cpp): the byte-stream parser *)
(* of loop(), the dispatcher process_msg(), the flash commands and the     *)
(* reply encoder send_msg(), as one state machine.  The device is modelled *)
(* with a scaled-down flash (PageWords words per page, FlashPages pages).  *)
(***************************************************************************)
EXTENDS Integers, Sequences, FiniteSets, TLC

\* ---- model bounds -------------------------------------------------------
\* device size: 16-bit words per flash page, and flash pages
PageWords == 1
FlashPages == 2
\* how many bytes of a run a noisy line disturbs
MaxGlitches == 1

\* ---- device and program constants --------------------------------------
SPM_PAGESIZE == 2 * PageWords
FLASHEND == FlashPages * SPM_PAGESIZE - 1
NUM_PAGES == (FLASHEND + 1) \div SPM_PAGESIZE
MIDI_ID == 112
VERSION == 1

STATE_IDLE == 0
STATE_MATCHING_HEADER == 1
STATE_READING_BODY == 2
STATE_EXPECTING_END == 3

COMMAND_PING == 16
COMMAND_WRITE == 17
COMMAND_READ == 18
COMMAND_VERIFY == 19
COMMAND_QUIT == 20
REPLY_SUCCESS == 32
REPLY_ERROR == 33
REPLY_READ == 34
REPLY_VERIFY == 35

ERROR_HEADER_MISMATCH == 1
ERROR_INVALID_FORMAT == 2
ERROR_INCOMPLETE_MESSAGE == 3
ERROR_INVALID_NIBBLE == 4
ERROR_INVALID_CHECKSUM == 5
ERROR_UNKNOWN_COMMAND == 6
ERROR_INVALID_PAYLOAD_SIZE == 7
ERROR_INVALID_PAGE_NUMBER == 8

SYSEX_START == 240
SYSEX_END == 247

\* sizeof(msg.buffer), sizeof(msg.header), sizeof(msg.command)+sizeof(checksum)
BufferSize == SPM_PAGESIZE + 1 + 1 + 1
HeaderSize == 3
Overhead == 1 + 1

\* msg.header as loop() initialises it (C index i is header[i + 1])
header == <<0, MIDI_ID, VERSION>>

\* First flash address of the bootloader's own resident region: the
\* bootloader occupies the top page of flash.
BootStart == (NUM_PAGES - 1) * SPM_PAGESIZE

\* ---- byte arithmetic ----------------------------------------------------
RECURSIVE Xor(_, _)
Xor(a, b) ==
  IF a = 0 THEN b
  ELSE IF b = 0 THEN a
  ELSE ((a + b) % 2) + 2 * Xor(a \div 2, b \div 2)

RECURSIVE XorAll(_)
XorAll(s) == IF s = <<>> THEN 0 ELSE Xor(Head(s), XorAll(Tail(s)))

\* mutant of PutNibbles: the low nibble goes first
PutNibbles_LowFirst(x) == <<x % 16, x \div 16>>

\* uart_putc(x >> 4); uart_putc(x & 0x0f)
PutNibbles(x) == <<x \div 16, x % 16>>

RECURSIVE PutBytes(_)
PutBytes(s) == IF s = <<>> THEN <<>> ELSE PutNibbles(Head(s)) \o PutBytes(Tail(s))

\* ---- reply encoder ------------------------------------------------------
\* mutant of send_msg: the checksum sent is the byte the buffer holds after
\* the reply bytes, where a request left its own
send_msg_RequestChecksum(buf, params_size) ==
  LET msg_size == (1 + params_size) % 256
      bytes == [i \in 1..msg_size |-> buf[i - 1]]
  IN  <<SYSEX_START>> \o header \o PutBytes(bytes)
        \o PutNibbles(buf[msg_size]) \o <<SYSEX_END>>

\* send_msg(params_size): the bytes put on the wire, in order
send_msg(buf, params_size) ==
  LET msg_size == (1 + params_size) % 256
      bytes == [i \in 1..msg_size |-> buf[i - 1]]
  IN  <<SYSEX_START>> \o header \o PutBytes(bytes)
        \o PutNibbles(XorAll(bytes)) \o <<SYSEX_END>>

reply_success(m) ==
  LET buf == [m.buffer EXCEPT ![0] = REPLY_SUCCESS]
  IN  [m EXCEPT !.buffer = buf, !.reply = send_msg(buf, 0)]

\* mutant of reply_error: one byte more of the buffer is sent
reply_error_Long(m, error) ==
  LET buf == [m.buffer EXCEPT ![0] = REPLY_ERROR, ![1] = error]
  IN  [m EXCEPT !.buffer = buf, !.reply = send_msg(buf, 2)]

reply_error(m, error) ==
  LET buf == [m.buffer EXCEPT ![0] = REPLY_ERROR, ![1] = error]
  IN  [m EXCEPT !.buffer = buf, !.reply = send_msg(buf, 1)]

reply_data(m, command, data_size) ==
  LET buf == [m.buffer EXCEPT ![0] = command]
  IN  [m EXCEPT !.buffer = buf, !.reply = send_msg(buf, data_size)]

\* ---- flash commands -----------------------------------------------------
\* mutant of FillWord: the two bytes of the word the other way round
FillWord_Swapped(buf, k) == (buf[2 + 2 * k] * 256 + buf[2 + 2 * k + 1]) % 65536

\* the 16-bit word boot_page_fill receives for word k of msg.page_data
FillWord(buf, k) == (buf[2 + 2 * k] + buf[2 + 2 * k + 1] * 256) % 65536

\* the byte the programmed page holds at offset o (low byte of a word first)
PageByte(buf, o) ==
  IF o % 2 = 0 THEN FillWord(buf, o \div 2) % 256
  ELSE FillWord(buf, o \div 2) \div 256

command_write(m) ==
  LET page == m.buffer[1] * SPM_PAGESIZE
  IN  [m EXCEPT !.flash =
        [a \in DOMAIN m.flash |->
          IF a >= page /\ a < page + SPM_PAGESIZE
          THEN PageByte(m.buffer, a - page)
          ELSE m.flash[a]]]

\* pgm_read_byte(addr); an address past FLASHEND reads as unprogrammed
pgm_read_byte(fl, addr) == IF addr \in DOMAIN fl THEN fl[addr] ELSE 255

command_read(m) ==
  LET page == m.buffer[1] * SPM_PAGESIZE
  IN  [m EXCEPT !.buffer =
        [i \in DOMAIN m.buffer |->
          IF i >= 1 /\ i <= SPM_PAGESIZE
          THEN pgm_read_byte(m.flash, page + i - 1)
          ELSE m.buffer[i]]]

command_verify(m) ==
  LET page == m.buffer[1] * SPM_PAGESIZE
  IN  [m EXCEPT !.buffer[1] =
        XorAll([o \in 1..SPM_PAGESIZE |-> pgm_read_byte(m.flash, page + o - 1)])]

\* ---- dispatcher ---------------------------------------------------------
\* mutants of the CHECK conditions: a Write one byte short passes, a Read of
\* any size passes, the page number NUM_PAGES passes
WriteSizeOk_AtLeast(size) == size >= SPM_PAGESIZE
ReadSizeOk_Any(size) == TRUE
PageInRange_Inclusive(page_no) == page_no <= NUM_PAGES

\* mutant of PingSizeOk: a Ping must carry a payload
PingSizeOk_NonEmpty(size) == size # 0

\* the conditions of the CHECK lines of process_msg
PingSizeOk(size) == size = 0
WriteSizeOk(size) == size = SPM_PAGESIZE + 1
ReadSizeOk(size) == size = 1
VerifySizeOk(size) == size = 1
QuitSizeOk(size) == size = 0
PageInRange(page_no) == page_no < NUM_PAGES

process_msg(m) ==
  LET command == m.buffer[0]
      page_no == m.buffer[1]
  IN  CASE command = COMMAND_PING ->
             IF ~PingSizeOk(m.payload_size)
             THEN reply_error(m, ERROR_INVALID_PAYLOAD_SIZE)
             ELSE reply_success(m)
        [] command = COMMAND_WRITE ->
             IF ~WriteSizeOk(m.payload_size)
             THEN reply_error(m, ERROR_INVALID_PAYLOAD_SIZE)
             ELSE IF ~PageInRange(page_no)
             THEN reply_error(m, ERROR_INVALID_PAGE_NUMBER)
             ELSE reply_success(command_write(m))
        [] command = COMMAND_VERIFY ->
             IF ~VerifySizeOk(m.payload_size)
             THEN reply_error(m, ERROR_INVALID_PAYLOAD_SIZE)
             ELSE IF ~PageInRange(page_no)
             THEN reply_error(m, ERROR_INVALID_PAGE_NUMBER)
             ELSE reply_data(command_verify(m), REPLY_VERIFY, 1)
        [] command = COMMAND_READ ->
             IF ~ReadSizeOk(m.payload_size)
             THEN reply_error(m, ERROR_INVALID_PAYLOAD_SIZE)
             ELSE IF ~PageInRange(page_no)
             THEN reply_error(m, ERROR_INVALID_PAGE_NUMBER)
             ELSE reply_data(command_read(m), REPLY_READ, SPM_PAGESIZE)
        [] command = COMMAND_QUIT ->
             IF ~QuitSizeOk(m.payload_size)
             THEN reply_error(m, ERROR_INVALID_PAYLOAD_SIZE)
             ELSE [reply_success(m) EXCEPT !.jump = TRUE]
        [] OTHER -> reply_error(m, ERROR_UNKNOWN_COMMAND)

\* ---- parser: one iteration of the for(;;) of loop() ---------------------
\* case STATE_MATCHING_HEADER, byte < 0x80
MatchingHeader(m, byte) ==
  LET n == (m.bytes_read + 1) % 65536
      r == [m EXCEPT !.bytes_read = n]
  IN  IF byte # header[m.bytes_read + 1]
      THEN [reply_error(r, ERROR_HEADER_MISMATCH) EXCEPT !.state = STATE_IDLE]
      ELSE IF n = HeaderSize
      THEN [r EXCEPT !.state = STATE_READING_BODY, !.bytes_read = 0]
      ELSE r

\* mutants of BodyFull: ExpectingEnd one byte before the buffer is full; one
\* byte after
BodyFull_Early(m) ==
  IF m.payload_size = BufferSize - 1
  THEN [m EXCEPT !.state = STATE_EXPECTING_END]
  ELSE m

BodyFull_Late(m) ==
  IF m.payload_size = BufferSize + 1
  THEN [m EXCEPT !.state = STATE_EXPECTING_END]
  ELSE m

\* the state after a nibble has been stored
BodyFull(m) ==
  IF m.payload_size = BufferSize
  THEN [m EXCEPT !.state = STATE_EXPECTING_END]
  ELSE m

\* mutant of NibbleAbort: the parser stays in ReadingBody
NibbleAbort_Stay(m) == m

\* the state after reply_error(ERROR_INVALID_NIBBLE)
NibbleAbort(m) == [m EXCEPT !.state = STATE_IDLE]

\* case STATE_READING_BODY, byte < 0x80
ReadingBody(m, byte) ==
  LET n == (m.bytes_read + 1) % 65536
      ps == m.payload_size
  IN  IF byte > 15
      THEN NibbleAbort(reply_error(m, ERROR_INVALID_NIBBLE))
      ELSE IF m.bytes_read % 2 = 1
      THEN LET b == (m.buffer[ps] + byte) % 256
           IN  BodyFull([m EXCEPT !.bytes_read = n,
                                  !.buffer[ps] = b,
                                  !.checksum = Xor(m.checksum, b),
                                  !.payload_size = (ps + 1) % 65536])
      ELSE BodyFull([m EXCEPT !.bytes_read = n,
                              !.buffer[ps] = (byte * 16) % 256])

\* case STATE_EXPECTING_END, byte < 0x80
ExpectingEnd(m) ==
  [reply_error(m, ERROR_INVALID_PAYLOAD_SIZE) EXCEPT !.state = STATE_IDLE]

\* mutants of StartFrame: no reply for the frame in progress; payload_size
\* not reset
StartFrame_Silent(m) ==
  [m EXCEPT !.state = STATE_MATCHING_HEADER, !.checksum = 0,
            !.bytes_read = 0, !.payload_size = 0]

StartFrame_KeepSize(m) ==
  LET r == IF m.state # STATE_IDLE
           THEN reply_error(m, ERROR_INCOMPLETE_MESSAGE)
           ELSE m
  IN  [r EXCEPT !.state = STATE_MATCHING_HEADER, !.checksum = 0,
                !.bytes_read = 0]

\* mutant of StartFrame: the running checksum is not reset
StartFrame_KeepChecksum(m) ==
  LET r == IF m.state # STATE_IDLE
           THEN reply_error(m, ERROR_INCOMPLETE_MESSAGE)
           ELSE m
  IN  [r EXCEPT !.state = STATE_MATCHING_HEADER,
                !.bytes_read = 0, !.payload_size = 0]

\* byte == 0xf0
StartFrame(m) ==
  LET r == IF m.state # STATE_IDLE
           THEN reply_error(m, ERROR_INCOMPLETE_MESSAGE)
           ELSE m
  IN  [r EXCEPT !.state = STATE_MATCHING_HEADER, !.checksum = 0,
                !.bytes_read = 0, !.payload_size = 0]

\* mutant of TooShort: only a frame without any decoded byte is too short
TooShort_NoByte(m) == m.state < STATE_READING_BODY \/ m.payload_size < 1

\* mutant of TooShort: only a frame still in MatchingHeader is too short
TooShort_HeaderOnly(m) == m.state < STATE_READING_BODY

\* the condition of the ERROR_INVALID_FORMAT branch
TooShort(m) == m.state < STATE_READING_BODY \/ m.payload_size <= 1

\* byte == 0xf7; program_main() does not return, so a Quit never reaches
\* the assignment state = STATE_IDLE
EndFrame(m) ==
  IF m.state = STATE_IDLE THEN m
  ELSE IF TooShort(m)
  THEN [reply_error(m, ERROR_INVALID_FORMAT) EXCEPT !.state = STATE_IDLE]
  ELSE IF m.checksum # 0
  THEN [reply_error(m, ERROR_INVALID_CHECKSUM) EXCEPT !.state = STATE_IDLE]
  ELSE LET r == process_msg(
                  [m EXCEPT !.payload_size = (m.payload_size - Overhead) % 65536])
       IN  IF r.jump THEN r ELSE [r EXCEPT !.state = STATE_IDLE]

\* mutant of LoopBody: a byte >= 0x80 that is no delimiter is handled as a
\* data byte
LoopBody_AllData(m, byte) ==
  IF byte # SYSEX_START /\ byte # SYSEX_END
  THEN CASE m.state = STATE_MATCHING_HEADER -> MatchingHeader(m, byte)
         [] m.state = STATE_READING_BODY -> ReadingBody(m, byte)
         [] m.state = STATE_EXPECTING_END -> ExpectingEnd(m)
         [] OTHER -> m
  ELSE IF byte = SYSEX_START THEN StartFrame(m)
  ELSE EndFrame(m)

\* the body of the for(;;) after byte = uart_getc()
LoopBody(m, byte) ==
  IF byte < 128
  THEN CASE m.state = STATE_MATCHING_HEADER -> MatchingHeader(m, byte)
         [] m.state = STATE_READING_BODY -> ReadingBody(m, byte)
         [] m.state = STATE_EXPECTING_END -> ExpectingEnd(m)
         [] OTHER -> m
  ELSE IF byte = SYSEX_START THEN StartFrame(m)
  ELSE IF byte = SYSEX_END THEN EndFrame(m)
  ELSE m

\* the for(;;) of loop() run over the bytes uart_getc() returns one after the
\* other; reply is what the last of them made send_msg() transmit
RECURSIVE Feed(_, _)
Feed(m, bytes) ==
  IF bytes = <<>> THEN m
  ELSE Feed(LoopBody([m EXCEPT !.reply = <<>>], Head(bytes)), Tail(bytes))

\* the bootloader as loop() starts it on a device whose flash holds fl: msg
\* and payload_size zero, state Idle
Fresh(fl) ==
  [state |-> STATE_IDLE, bytes_read |-> 0, checksum |-> 0, payload_size |-> 0,
   buffer |-> [i \in 0..(BufferSize - 1) |-> 0], flash |-> fl,
   reply |-> <<>>, jump |-> FALSE]


\* ---- the host on the other end of the serial line -----------------------
\* The host sends whole frames, one after the other.  Over a clean line the
\* bootloader receives them as sent.  Over a noisy line up to MaxGlitches
\* bytes of a run are replaced, inserted, or lost together with the rest of
\* their frame, and the host keeps to the requests of NoisyMessages.
\* page numbers the host addresses: the first page, the last page and the
\* first page number past the end of the flash
PageNos == {0, NUM_PAGES - 1, NUM_PAGES}

\* the page image the host programs
PageData == [i \in 1..SPM_PAGESIZE |-> (17 * i + 1) % 256]

\* the image one byte short of a page
Short(d) == SubSeq(d, 1, SPM_PAGESIZE - 1)

\* command byte and payload of the requests the host sends
Messages ==
  { <<c>> : c \in {COMMAND_PING, COMMAND_QUIT, 21} }
  \cup { <<c, p>> : c \in {COMMAND_READ, COMMAND_VERIFY}, p \in PageNos }
  \cup { <<COMMAND_WRITE, p>> \o PageData : p \in PageNos }
  \cup { <<c, NUM_PAGES>> : c \in {COMMAND_PING, COMMAND_QUIT} }
  \cup { <<c, NUM_PAGES, 0>> : c \in {COMMAND_READ, COMMAND_VERIFY} }
  \cup { <<COMMAND_WRITE, p>> \o Short(PageData) : p \in {0, NUM_PAGES} }
  \cup { <<>> }

\* the wire frame of a request: 0xF0, header, nibbles of the bytes and of
\* their XOR, 0xF7
Frame(bytes) ==
  <<SYSEX_START>> \o header \o PutBytes(bytes)
    \o PutNibbles(XorAll(bytes)) \o <<SYSEX_END>>

Frames == { Frame(b) : b \in Messages }

\* the requests the host sends over a noisy line
NoisyMessages ==
  { <<COMMAND_PING>>, <<COMMAND_READ, 0>>, <<COMMAND_WRITE, 0>> \o PageData }

NoisyFrames == { Frame(b) : b \in NoisyMessages }

\* bytes a faulty line or host puts in place of, or between, frame bytes
GlitchBytes == {1, 112, 128, SYSEX_START, SYSEX_END}

\* ---- state --------------------------------------------------------------
VARIABLES
  state,          \* state_t state
  msg_buffer,     \* msg.buffer, indexed from 0
  payload_size,   \* uint16_t payload_size
  byte,           \* loop(): the byte uart_getc() returned last
  checksum,       \* loop(): running XOR of the decoded bytes
  bytes_read,     \* loop(): header position / nibble count
  flash,          \* program memory, indexed by byte address
  pc,             \* "recv": in uart_getc(); "send": in send_msg();
                  \* "jump": about to call program_main(); "app": application
  reply,          \* the frame send_msg() was given since the last received
                  \* byte; <<>> if none
  txpos,          \* how many bytes of reply uart_putc() has put on the wire
  jump,           \* the running process_msg() is the Quit case
  noisy,          \* host: the serial line disturbs frames
  pending,        \* host: the rest of the frame being sent
  glitches,       \* host: how many times the line has disturbed a frame
  body,           \* history: the nibbles stored since the last 0xF0
  nreplies,       \* history: replies started for the frame the last 0xF0
                  \* began; -1 before the first 0xF0
  written,        \* history: page -> image of the last accepted Write
  rx,             \* history: the bytes uart_getc() returned for the frame the
                  \* last 0xF0 began, that 0xF0 included, up to the byte
                  \* that ended it
  start           \* history: the parser state the last 0xF0 arrived in; -1
                  \* before the first 0xF0

vars == <<state, msg_buffer, payload_size, byte, checksum, bytes_read, flash,
          pc, reply, txpos, jump, noisy, pending, glitches, body, nreplies,
          written, rx, start>>

\* the parser and dispatcher variables as one record
Cur ==
  [state |-> state, bytes_read |-> bytes_read, checksum |-> checksum,
   payload_size |-> payload_size, buffer |-> msg_buffer, flash |-> flash,
   reply |-> <<>>, jump |-> FALSE]

\* the bytes decoded from the nibbles stored so far, a dangling one left out
RECURSIVE Decoded(_)
Decoded(nib) ==
  IF Len(nib) < 2 THEN <<>>
  ELSE <<nib[1] * 16 + nib[2]>> \o Decoded(SubSeq(nib, 3, Len(nib)))

\* a frame ending now carries a well-formed Write of a page image to a page
\* of the flash
IsValidWrite(nib) ==
  LET d == Decoded(nib)
  IN  /\ Len(nib) = 2 * (SPM_PAGESIZE + 3)
      /\ d[1] = COMMAND_WRITE
      /\ d[2] < NUM_PAGES
      /\ XorAll(d) = 0

\* msg and payload_size are zero-initialised globals; checksum and bytes_read
\* are locals of loop() without an initialiser, so they start with any value
Init ==
  /\ state = STATE_IDLE
  /\ msg_buffer = [i \in 0..(BufferSize - 1) |-> 0]
  /\ payload_size = 0
  /\ byte = 0
  /\ checksum \in {0, 165}
  /\ bytes_read \in {0, 65535}
  /\ flash = [a \in 0..FLASHEND |-> 255]
  /\ pc = "recv"
  /\ reply = <<>>
  /\ txpos = 0
  /\ jump = FALSE
  /\ noisy \in BOOLEAN
  /\ pending = <<>>
  /\ glitches = 0
  /\ body = <<>>
  /\ nreplies = -1
  /\ written = [p \in 0..(NUM_PAGES - 1) |-> <<>>]
  /\ rx = <<>>
  /\ start = -1

\* one iteration of the for(;;) of loop() on the byte b
Loop(b) ==
  LET m == Cur
      r == LoopBody(m, b)
  IN  /\ pc = "recv"
      /\ byte' = b
      /\ state' = r.state
      /\ bytes_read' = r.bytes_read
      /\ checksum' = r.checksum
      /\ payload_size' = r.payload_size
      /\ msg_buffer' = r.buffer
      /\ flash' = r.flash
      /\ jump' = r.jump
      /\ reply' = r.reply
      /\ txpos' = 0
      /\ pc' = IF r.reply # <<>> THEN "send" ELSE "recv"
      /\ body' = IF b = SYSEX_START THEN <<>>
                 ELSE IF state = STATE_READING_BODY /\ b <= 15
                 THEN Append(body, b)
                 ELSE body
      /\ nreplies' = IF b = SYSEX_START THEN 0
                     ELSE IF r.reply # <<>> THEN nreplies + 1
                     ELSE nreplies
      /\ written' = IF b = SYSEX_END /\ state >= STATE_READING_BODY
                       /\ IsValidWrite(body)
                    THEN [written EXCEPT ![Decoded(body)[2]] =
                            SubSeq(Decoded(body), 3, SPM_PAGESIZE + 2)]
                    ELSE written
      /\ rx' = IF b = SYSEX_START THEN <<b>>
               ELSE IF state # STATE_IDLE THEN Append(rx, b)
               ELSE rx
      /\ start' = IF b = SYSEX_START THEN state ELSE start

\* the host starts a frame
HostQueue ==
  /\ pc = "recv"
  /\ pending = <<>>
  /\ \E f \in (IF noisy THEN NoisyFrames ELSE Frames) : pending' = f
  /\ UNCHANGED <<state, msg_buffer, payload_size, byte, checksum, bytes_read,
                 flash, pc, reply, txpos, jump, noisy, glitches, body,
                 nreplies, written, rx, start>>

\* uart_getc() returns the next byte of the frame
Recv ==
  /\ pending # <<>>
  /\ Loop(Head(pending))
  /\ pending' = Tail(pending)
  /\ UNCHANGED <<noisy, glitches>>

\* uart_getc() returns a byte that replaces the next byte of the frame
RecvCorrupted ==
  /\ pending # <<>>
  /\ noisy /\ glitches < MaxGlitches
  /\ \E g \in GlitchBytes : g # Head(pending) /\ Loop(g)
  /\ pending' = Tail(pending)
  /\ glitches' = glitches + 1
  /\ UNCHANGED noisy

\* uart_getc() returns a byte that was put between two bytes of the frame
RecvInserted ==
  /\ pending # <<>>
  /\ noisy /\ glitches < MaxGlitches
  /\ \E g \in GlitchBytes : Loop(g)
  /\ UNCHANGED <<noisy, pending>>
  /\ glitches' = glitches + 1

\* the host gives up the frame it is sending
HostDrop ==
  /\ pc = "recv"
  /\ Len(pending) > 1
  /\ noisy /\ glitches < MaxGlitches
  /\ pending' = <<>>
  /\ glitches' = glitches + 1
  /\ UNCHANGED <<state, msg_buffer, payload_size, byte, checksum, bytes_read,
                 flash, pc, reply, txpos, jump, noisy, body, nreplies,
                 written, rx, start>>

\* mutant of NextPc: the Quit case calls program_main() before the reply is
\* out
NextPc_JumpEarly(sent, len, quit) ==
  IF quit THEN "jump"
  ELSE IF sent < len THEN "send" ELSE "recv"

\* where control is once sent of the len bytes of a reply are on the wire:
\* send_msg() returns after the last uart_putc(), to the loop or, in the
\* Quit case, to the program_main() call that follows reply_success()
NextPc(sent, len, quit) ==
  IF sent < len THEN "send"
  ELSE IF quit THEN "jump" ELSE "recv"

\* one uart_putc() of send_msg()
UartPutc ==
  /\ pc = "send"
  /\ txpos < Len(reply)
  /\ txpos' = txpos + 1
  /\ pc' = NextPc(txpos + 1, Len(reply), jump)
  /\ UNCHANGED <<state, msg_buffer, payload_size, byte, checksum, bytes_read,
                 flash, reply, jump, noisy, pending, glitches, body, nreplies,
                 written, rx, start>>

\* program_main(): control passes to the resident application
ProgramMain ==
  /\ pc = "jump"
  /\ pc' = "app"
  /\ UNCHANGED <<state, msg_buffer, payload_size, byte, checksum, bytes_read,
                 flash, reply, txpos, jump, noisy, pending, glitches, body,
                 nreplies, written, rx, start>>

Next ==
  \/ HostQueue
  \/ Recv
  \/ RecvCorrupted
  \/ RecvInserted
  \/ HostDrop
  \/ UartPutc
  \/ ProgramMain

Spec == Init /\ [][Next]_vars

\* ---- vocabulary of the properties ---------------------------------------
\* this step is one iteration of the loop: uart_getc() returned byte'
Consumes ==
  /\ pc = "recv"
  /\ pending # <<>>
  /\ \/ pending' = Tail(pending)
     \/ pending' = pending /\ glitches' # glitches

\* the reply frames as they appear on the wire
SuccessFrame == Frame(<<REPLY_SUCCESS>>)
ErrorFrame(e) == Frame(<<REPLY_ERROR, e>>)

\* the bytes decoded in the frame in progress
Dec == Decoded(body)

\* the frame in progress has left MatchingHeader
InBody == state \in {STATE_READING_BODY, STATE_EXPECTING_END}

\* 0xF7 arrives now and ends a frame whose decoded bytes are a command, a
\* payload and a checksum that makes the XOR of all of them zero
EndsMessage ==
  /\ Consumes /\ byte' = SYSEX_END
  /\ InBody
  /\ Len(Dec) >= 2
  /\ XorAll(Dec) = 0

\* the payload size of that message
PayloadLen == Len(Dec) - 2

\* the payload size each command requires
RequiredSize(c) ==
  CASE c = COMMAND_PING -> 0
    [] c = COMMAND_WRITE -> SPM_PAGESIZE + 1
    [] c = COMMAND_READ -> 1
    [] c = COMMAND_VERIFY -> 1
    [] c = COMMAND_QUIT -> 0

Commands ==
  {COMMAND_PING, COMMAND_WRITE, COMMAND_READ, COMMAND_VERIFY, COMMAND_QUIT}

\* the contents of page p of the flash fl
PageOf(fl, p) == [i \in 1..SPM_PAGESIZE |-> fl[p * SPM_PAGESIZE + i - 1]]

\* this step starts exactly one reply, the Error reply with code e, it is the
\* only reply of the frame, and the parser is back in Idle
OneError(e) ==
  /\ pc' = "send" /\ txpos' = 0
  /\ reply' = ErrorFrame(e)
  /\ nreplies' = 1
  /\ state' = STATE_IDLE

\* this step starts no reply
Silent == pc' = "recv" /\ reply' = <<>> /\ nreplies' = nreplies

\* ---- C1 -----------------------------------------------------------------
\* C1: a step changes the flash only if it is the 0xF7 of a Write message
\* whose payload is one page plus the page-number byte and whose page number
\* is below NUM_PAGES; the step then replies Success and changes no byte
\* outside that page.  Every other step leaves every flash byte unchanged.
C1_FlashOnlyByValidWrite ==
  [][flash' # flash =>
       /\ EndsMessage
       /\ Dec[1] = COMMAND_WRITE
       /\ PayloadLen = SPM_PAGESIZE + 1
       /\ Dec[2] < NUM_PAGES
       /\ reply' = SuccessFrame
       /\ \A a \in DOMAIN flash :
            flash'[a] # flash[a] =>
              a \div SPM_PAGESIZE = Dec[2]]_vars

\* a Write has programmed a page and its Success reply is being sent
C1_Witness ==
  /\ pc = "send" /\ reply = SuccessFrame
  /\ byte = SYSEX_END
  /\ Len(Dec) = SPM_PAGESIZE + 3 /\ Dec[1] = COMMAND_WRITE
  /\ PageOf(flash, Dec[2]) = PageData

\* ---- C2 -----------------------------------------------------------------
\* C2: a well-formed Write whose page lies in the bootloader's own resident
\* region is answered with Error(InvalidPageNumber) and leaves the flash as
\* it was.
C2_BootloaderRegionRejected ==
  [][(/\ EndsMessage
      /\ Dec[1] = COMMAND_WRITE
      /\ PayloadLen = SPM_PAGESIZE + 1
      /\ Dec[2] * SPM_PAGESIZE >= BootStart)
     => (reply' = ErrorFrame(ERROR_INVALID_PAGE_NUMBER) /\ flash' = flash)]_vars

\* ---- C3 -----------------------------------------------------------------
\* C3: a frame in progress that receives a wrong header byte, a body data
\* byte above 0x0F, a 0xF7 with a non-zero XOR over at least two decoded
\* bytes, a 0xF7 before two bytes were decoded, or a 0xF7 closing a known
\* command whose payload is shorter than the command requires, gets exactly
\* one Error reply with the code HeaderMismatch, InvalidNibble,
\* InvalidChecksum, InvalidFormat, InvalidPayloadSize respectively and the
\* parser is in Idle; in Idle every byte but 0xF0 is consumed without a reply.
C3_MalformedFrameOneError ==
  [][Consumes =>
       /\ (state = STATE_MATCHING_HEADER /\ byte' < 128
             /\ byte' # header[bytes_read + 1])
            => OneError(ERROR_HEADER_MISMATCH)
       /\ (state = STATE_READING_BODY /\ byte' < 128 /\ byte' > 15)
            => OneError(ERROR_INVALID_NIBBLE)
       /\ (byte' = SYSEX_END /\ InBody /\ Len(Dec) >= 2 /\ XorAll(Dec) # 0)
            => OneError(ERROR_INVALID_CHECKSUM)
       /\ (byte' = SYSEX_END /\ state # STATE_IDLE
             /\ (state = STATE_MATCHING_HEADER \/ Len(Dec) <= 1))
            => OneError(ERROR_INVALID_FORMAT)
       /\ (EndsMessage /\ Dec[1] \in Commands
             /\ PayloadLen < RequiredSize(Dec[1]))
            => OneError(ERROR_INVALID_PAYLOAD_SIZE)
       /\ (state = STATE_IDLE /\ byte' # SYSEX_START)
            => (Silent /\ state' = STATE_IDLE)]_vars

\* an invalid nibble has aborted a frame whose body had begun, and the one
\* Error reply is being sent
C3_Witness ==
  /\ pc = "send" /\ reply = ErrorFrame(ERROR_INVALID_NIBBLE)
  /\ state = STATE_IDLE /\ nreplies = 1
  /\ byte > 15 /\ byte < 128 /\ body # <<>>

\* ---- C4 -----------------------------------------------------------------
\* C4: once a well-formed Write of an image to a page of the flash has been
\* received, a well-formed Read of that page is answered with the Data reply
\* carrying the SPM_PAGESIZE bytes of the image last written there, in
\* order, and a well-formed Verify with the one byte that is their XOR,
\* whatever was written to other pages in between.
C4_ReadBackWritten ==
  [][(/\ EndsMessage
      /\ PayloadLen = 1
      /\ Len(body) = 2 * Len(Dec)
      /\ Dec[2] < NUM_PAGES
      /\ written[Dec[2]] # <<>>)
     => /\ Dec[1] = COMMAND_READ
            => reply' = Frame(<<REPLY_READ>> \o written[Dec[2]])
        /\ Dec[1] = COMMAND_VERIFY
            => reply' = Frame(<<REPLY_VERIFY, XorAll(written[Dec[2]])>>)]_vars

\* the Data reply to a Read of a written page is being sent
C4_Witness ==
  /\ pc = "send" /\ byte = SYSEX_END
  /\ Len(Dec) = 3 /\ Dec[1] = COMMAND_READ /\ Dec[2] < NUM_PAGES
  /\ written[Dec[2]] = PageData
  /\ reply = Frame(<<REPLY_READ>> \o PageData)

C6_SizeCheckedFirst ==
  [][(/\ EndsMessage
      /\ Dec[1] \in Commands
      /\ PayloadLen # RequiredSize(Dec[1]))
     => /\ reply' = ErrorFrame(ERROR_INVALID_PAYLOAD_SIZE)
        /\ flash' = flash
        /\ ~jump']_vars

\* a Write one byte short, to a page number out of range, has been refused
\* with InvalidPayloadSize
C6_Witness ==
  /\ pc = "send" /\ byte = SYSEX_END
  /\ Len(Dec) = SPM_PAGESIZE + 2 /\ Dec[1] = COMMAND_WRITE
  /\ Dec[2] = NUM_PAGES /\ XorAll(Dec) = 0
  /\ reply = ErrorFrame(ERROR_INVALID_PAYLOAD_SIZE)

\* ---- C7 -----------------------------------------------------------------
\* C7: whenever control is about to pass or has passed to the resident
\* application, the last frame received was a Quit with an empty payload and
\* every byte of its Success reply, 0xF0 to 0xF7, is on the wire; a Quit with
\* a payload is answered with Error(InvalidPayloadSize) and the loop goes on.
C7_QuitAfterWholeReply ==
  /\ pc \in {"jump", "app"} =>
       /\ reply = SuccessFrame /\ txpos = Len(reply)
       /\ byte = SYSEX_END
       /\ Len(Dec) = 2 /\ Dec[1] = COMMAND_QUIT /\ XorAll(Dec) = 0
  /\ (/\ pc = "send" /\ byte = SYSEX_END
      /\ Len(Dec) > 2 /\ Dec[1] = COMMAND_QUIT /\ XorAll(Dec) = 0)
     => (reply = ErrorFrame(ERROR_INVALID_PAYLOAD_SIZE) /\ ~jump)

\* control has passed to the application
C7_Witness == pc = "app" /\ txpos = Len(SuccessFrame)

\* ---- C8 -----------------------------------------------------------------
\* the reply a message d (command, payload, checksum) gets on the flash fl
Answer(d, fl) ==
  LET c == d[1]
  IN  IF c \notin Commands THEN ErrorFrame(ERROR_UNKNOWN_COMMAND)
      ELSE IF Len(d) - 2 # RequiredSize(c)
      THEN ErrorFrame(ERROR_INVALID_PAYLOAD_SIZE)
      ELSE IF c \in {COMMAND_WRITE, COMMAND_READ, COMMAND_VERIFY}
                /\ d[2] >= NUM_PAGES
      THEN ErrorFrame(ERROR_INVALID_PAGE_NUMBER)
      ELSE IF c = COMMAND_READ
      THEN Frame(<<REPLY_READ>> \o PageOf(fl, d[2]))
      ELSE IF c = COMMAND_VERIFY
      THEN Frame(<<REPLY_VERIFY, XorAll(PageOf(fl, d[2]))>>)
      ELSE SuccessFrame

\* C8: a frame begun by 0xF0 has no reply while it is in progress and exactly
\* one once the parser has left it (by 0xF7, by an error, or by the 0xF0 that
\* supersedes it); a byte is consumed only when every byte of the reply
\* before it is on the wire; a 0xF7 that ends a frame in progress, and so
\* every dispatched message, starts exactly one reply.
C8_OneReplyPerFrame ==
  /\ [](/\ nreplies \in {-1, 0, 1}
        /\ state = STATE_IDLE => nreplies # 0
        /\ (state # STATE_IDLE /\ ~jump) => nreplies = 0)
  /\ [][Consumes =>
          /\ txpos = Len(reply)
          /\ (byte' = SYSEX_END /\ state # STATE_IDLE)
               => (pc' = "send" /\ nreplies' = 1)
          /\ byte' = SYSEX_START
               => ((pc' = "send") <=> (state # STATE_IDLE))
          /\ pc' = "send" => (reply' # <<>> /\ txpos' = 0)]_vars

\* a frame has been answered, its reply is out, and the loop is consuming
\* what is left of the frame
C8_Witness ==
  /\ pc = "recv" /\ state = STATE_IDLE /\ nreplies = 1
  /\ reply = <<>> /\ pending # <<>> /\ byte < 128

\* ---- C9 -----------------------------------------------------------------
\* while a body is being read the parser's counters and buffer are those of
\* the nibbles of this frame alone
ParsedFromFrameOnly ==
  (InBody /\ ~jump) =>
    /\ payload_size = Len(Dec)
    /\ checksum = XorAll(Dec)
    /\ bytes_read = Len(body)
    /\ \A i \in 1..Len(Dec) : msg_buffer[i - 1] = Dec[i]

\* C9: 0xF0 always leaves the parser in MatchingHeader with header position,
\* checksum and payload size zero; with a frame in progress it starts
\* exactly the reply Error(IncompleteMessage), in Idle it starts no reply;
\* the frame that follows is parsed from its own bytes alone and answered as
\* a message with these bytes is answered.
C9_StartRestartsFrame ==
  /\ []ParsedFromFrameOnly
  /\ [][Consumes =>
          /\ byte' = SYSEX_START =>
               /\ state' = STATE_MATCHING_HEADER
               /\ bytes_read' = 0 /\ checksum' = 0 /\ payload_size' = 0
               /\ flash' = flash
               /\ state # STATE_IDLE =>
                    (pc' = "send" /\ reply' = ErrorFrame(ERROR_INCOMPLETE_MESSAGE))
               /\ state = STATE_IDLE => (pc' = "recv" /\ reply' = <<>>)
          /\ EndsMessage => reply' = Answer(Dec, flash)]_vars

\* a second 0xF0 has met a frame whose body was being read
C9_Witness ==
  /\ pc = "send" /\ reply = ErrorFrame(ERROR_INCOMPLETE_MESSAGE)
  /\ byte = SYSEX_START /\ state = STATE_MATCHING_HEADER
  /\ msg_buffer[2] # 0

\* ---- C10 ----------------------------------------------------------------
\* what 0xF7 does when a frame with fewer than least decoded bytes counts as
\* too short
EndRule(least) ==
  (Consumes /\ byte' = SYSEX_END) =>
    IF state = STATE_IDLE
       THEN /\ Silent
            /\ UNCHANGED <<state, bytes_read, checksum, payload_size,
                           msg_buffer, flash>>
       ELSE /\ state' = STATE_IDLE \/ jump'
            /\ pc' = "send"
            /\ IF state = STATE_MATCHING_HEADER \/ Len(Dec) < least
               THEN reply' = ErrorFrame(ERROR_INVALID_FORMAT)
               ELSE IF XorAll(Dec) # 0
               THEN reply' = ErrorFrame(ERROR_INVALID_CHECKSUM)
               ELSE /\ payload_size' = Len(Dec) - 2
                    /\ reply' = Answer(Dec, flash)

\* C10 as claimed: InvalidFormat if the frame never left MatchingHeader or
\* fewer bytes were decoded than the command-code field has (one), else
\* InvalidChecksum if the XOR of the decoded bytes is non-zero, else the
\* message is dispatched with payload size = decoded bytes - 2; 0xF7 in Idle
\* changes nothing.
C10_AsClaimed == [][EndRule(1)]_vars

\* C10 (amended): as claimed, but the frame is too short, and answered with
\* InvalidFormat, whenever fewer than two bytes (command and checksum) were
\* decoded.
C10_EndOfFrame == [][EndRule(2)]_vars

\* a frame with one decoded byte has been ended and refused as InvalidFormat
C10_Witness ==
  /\ pc = "send" /\ byte = SYSEX_END
  /\ Len(Dec) = 1
  /\ reply = ErrorFrame(ERROR_INVALID_FORMAT)
  /\ state = STATE_IDLE

\* ---- C11 ----------------------------------------------------------------
\* the bytes received after the 0xF0 and the header of the frame in progress
RxNibbles == SubSeq(rx, HeaderSize + 2, Len(rx))

\* the bytes those nibble pairs encode: command, payload, checksum
RxMessage == Decoded(RxNibbles)

\* the bytes received since the last 0xF0 are, with the 0xF7 arriving now, a
\* complete well-formed frame: 0xF0, the header, the nibble pairs of a
\* command, a payload and their XOR, no more of them than the largest message
\* has, and nothing else
RxWellFormed ==
  /\ Len(rx) >= HeaderSize + 1 + 2 * Overhead
  /\ SubSeq(rx, 1, HeaderSize + 1) = <<SYSEX_START>> \o header
  /\ \A i \in 1..Len(RxNibbles) : RxNibbles[i] <= 15
  /\ Len(RxNibbles) % 2 = 0
  /\ Len(RxMessage) <= BufferSize
  /\ XorAll(RxMessage) = 0

\* C11: in whatever state the parser is, 0xF0 puts it in MatchingHeader with
\* no reply or with the one reply Error(IncompleteMessage); and when the
\* bytes received from that 0xF0 on are a complete well-formed frame, the
\* frame has had no reply before its 0xF7, the 0xF7 dispatches the message
\* and starts exactly the reply a message with these bytes gets on the
\* current flash, and the parser is then in Idle (a Quit with an empty
\* payload ends the loop instead: control goes to the application).
C11_Recoverable ==
  [][Consumes =>
       /\ byte' = SYSEX_START =>
            /\ state' = STATE_MATCHING_HEADER
            /\ reply' \in {<<>>, ErrorFrame(ERROR_INCOMPLETE_MESSAGE)}
       /\ (byte' = SYSEX_END /\ RxWellFormed) =>
            /\ InBody /\ nreplies = 0
            /\ Dec = RxMessage
            /\ pc' = "send" /\ txpos' = 0 /\ nreplies' = 1
            /\ reply' = Answer(RxMessage, flash)
            /\ payload_size' = Len(RxMessage) - Overhead
            /\ IF RxMessage = <<COMMAND_QUIT, COMMAND_QUIT>>
               THEN jump'
               ELSE state' = STATE_IDLE /\ ~jump']_vars

\* a Read that began while the parser was in ExpectingEnd for an earlier
\* frame has been received whole and its Data reply is being sent
C11_Witness ==
  /\ pc = "send" /\ byte = SYSEX_END
  /\ start = STATE_EXPECTING_END
  /\ rx = Frame(<<COMMAND_READ, 0>>)
  /\ reply = Frame(<<REPLY_READ>> \o PageOf(flash, 0))
  /\ state = STATE_IDLE

\* ---- C12 ----------------------------------------------------------------
\* the reply codes
Replies == {REPLY_SUCCESS, REPLY_ERROR, REPLY_READ, REPLY_VERIFY}

\* how many nibble pairs a reply frame of n bytes carries
Pairs(n) == (n - HeaderSize - 2) \div 2

\* C12: every reply frame is 0xF0, the header 0x00 0x70 0x01, for each reply
\* byte in msg.buffer its high nibble then its low nibble, two nibbles of
\* checksum, 0xF7, and nothing else; every byte between the 0xF0 and the
\* 0xF7 is at most 0x7F and every byte after the header at most 0x0F.
C12_ReplyFrameFormat ==
  reply # <<>> =>
    LET n == Len(reply)
    IN  /\ n >= HeaderSize + 2 + 2 * Overhead
        /\ n = HeaderSize + 2 + 2 * Pairs(n)
        /\ reply[1] = 240
        /\ reply[2] = 0 /\ reply[3] = 112 /\ reply[4] = 1
        /\ reply[n] = 247
        /\ \A i \in 2..(n - 1) : reply[i] \in 0..127
        /\ \A i \in (HeaderSize + 2)..(n - 1) : reply[i] \in 0..15
        /\ \A k \in 0..(Pairs(n) - 2) :
             /\ reply[HeaderSize + 2 + 2 * k] = msg_buffer[k] \div 16
             /\ reply[HeaderSize + 3 + 2 * k] = msg_buffer[k] % 16
        /\ msg_buffer[0] \in Replies

\* the Data reply to a Read of an unprogrammed page, every data byte 0xFF, is
\* on the wire
C12_Witness ==
  /\ pc = "recv" /\ txpos = Len(reply)
  /\ reply = Frame(<<REPLY_READ>> \o [i \in 1..SPM_PAGESIZE |-> 255])
  /\ msg_buffer[1] = 255

\* ---- C13 ----------------------------------------------------------------
\* the bytes a reply frame decodes to by the rule the parser applies to the
\* nibbles it receives
ReplyDecoded == Decoded(SubSeq(reply, HeaderSize + 2, Len(reply) - 1))

\* C13: the nibbles of every reply frame decode, high nibble * 16 + low
\* nibble, to the reply bytes in msg.buffer (reply code, then payload)
\* followed by one checksum byte; that byte is the XOR of the reply bytes,
\* so the XOR of all decoded bytes is zero.
C13_ReplyChecksumRecomputed ==
  reply # <<>> =>
    LET d == ReplyDecoded
        k == Len(d) - 1
    IN  /\ k >= 1
        /\ PutBytes(d) = SubSeq(reply, HeaderSize + 2, Len(reply) - 1)
        /\ \A i \in 1..k : d[i] = msg_buffer[i - 1]
        /\ d[k + 1] = XorAll(SubSeq(d, 1, k))
        /\ XorAll(d) = 0

\* the reply to a Verify of a written page is being sent, and its checksum
\* is not the checksum the request carried
C13_Witness ==
  /\ pc = "send" /\ byte = SYSEX_END
  /\ Len(Dec) = 3 /\ Dec[1] = COMMAND_VERIFY /\ Dec[2] < NUM_PAGES
  /\ written[Dec[2]] = PageData
  /\ Len(ReplyDecoded) = 3
  /\ ReplyDecoded[2] = XorAll(PageData)
  /\ ReplyDecoded[3] = Xor(REPLY_VERIFY, XorAll(PageData))
  /\ ReplyDecoded[3] # Dec[3]

\* ---- C14 ----------------------------------------------------------------
\* the well-formed Ping frame: empty payload, correct checksum
PingFrame == Frame(<<COMMAND_PING>>)

\* C14: from every state in which the loop waits in Idle, the Ping frame is
\* answered with the Success reply without payload, leaves the flash as it
\* was and the parser in Idle, and a second Ping frame right after it gets
\* the same reply and leaves the device exactly as the first left it; and
\* every Ping frame actually received from Idle starts that one reply with
\* the flash unchanged and the parser in Idle.
C14_PingIdempotent ==
  /\ []((pc = "recv" /\ state = STATE_IDLE) =>
          LET once == Feed(Cur, PingFrame)
              twice == Feed(once, PingFrame)
          IN  /\ once.reply = SuccessFrame
              /\ once.flash = flash
              /\ once.state = STATE_IDLE
              /\ ~once.jump
              /\ twice = once)
  /\ [][(/\ Consumes /\ byte' = SYSEX_END
          /\ start = STATE_IDLE
          /\ Append(rx, SYSEX_END) = PingFrame)
         => /\ pc' = "send" /\ reply' = SuccessFrame /\ nreplies' = 1
            /\ flash' = flash
            /\ state' = STATE_IDLE /\ ~jump']_vars

\* a Ping received from Idle after a page was programmed is being answered
\* with Success, and the page still holds its image
C14_Witness ==
  /\ pc = "send" /\ reply = SuccessFrame
  /\ start = STATE_IDLE /\ rx = PingFrame
  /\ state = STATE_IDLE
  /\ written[0] = PageData /\ PageOf(flash, 0) = PageData

\* ---- C15 ----------------------------------------------------------------
\* C15: a 0xF7 that arrives while the body holds an odd number of nibbles (a
\* high nibble without its low nibble) is answered with an Error reply and
\* the frame is not dispatched: the payload size is not reduced for the
\* dispatcher, the flash is unchanged and control stays in the loop.
C15_DanglingNibbleRejected ==
  [][(/\ Consumes /\ byte' = SYSEX_END
      /\ state = STATE_READING_BODY
      /\ Len(body) % 2 = 1)
     => /\ \E e \in ERROR_HEADER_MISMATCH..ERROR_INVALID_PAGE_NUMBER :
             reply' = ErrorFrame(e)
        /\ payload_size' = payload_size
        /\ flash' = flash
        /\ ~jump']_vars

\* ---- C16 ----------------------------------------------------------------
\* the largest message: one page, command byte, page-number byte, checksum
\* byte
Capacity == SPM_PAGESIZE + 3

\* C16: the parser is in ExpectingEnd exactly when the body of the frame in
\* progress has decoded Capacity bytes, and it enters it with the low nibble
\* of the last of them.  In ExpectingEnd a 0xF7 ends the frame as it ends any
\* other: InvalidChecksum if the XOR is non-zero, else the message is
\* dispatched, a Write to a page of the flash programs the page and gets
\* Success; a data byte (< 0x80) gets exactly one reply,
\* Error(InvalidPayloadSize), changes no flash and the parser is in Idle.
C16_ExpectingEnd ==
  /\ []((state = STATE_EXPECTING_END)
          <=> (InBody /\ Len(Dec) = Capacity))
  /\ [][Consumes =>
          /\ (state # STATE_EXPECTING_END /\ state' = STATE_EXPECTING_END) =>
               /\ state = STATE_READING_BODY /\ byte' <= 15
               /\ Len(body') = 2 * Capacity
               /\ payload_size' = Capacity
          /\ (state = STATE_EXPECTING_END /\ byte' = SYSEX_END) =>
               /\ pc' = "send" /\ nreplies' = 1 /\ state' = STATE_IDLE
               /\ XorAll(Dec) # 0 =>
                    reply' = ErrorFrame(ERROR_INVALID_CHECKSUM)
               /\ XorAll(Dec) = 0 =>
                    /\ payload_size' = SPM_PAGESIZE + 1
                    /\ reply' = Answer(Dec, flash)
               /\ (XorAll(Dec) = 0 /\ Dec[1] = COMMAND_WRITE
                      /\ Dec[2] < NUM_PAGES) =>
                    /\ reply' = SuccessFrame
                    /\ PageOf(flash', Dec[2]) = SubSeq(Dec, 3, SPM_PAGESIZE + 2)
          /\ (state = STATE_EXPECTING_END /\ byte' < 128) =>
               /\ OneError(ERROR_INVALID_PAYLOAD_SIZE)
               /\ flash' = flash]_vars

\* a data byte after a full buffer has been refused with InvalidPayloadSize
C16_Witness ==
  /\ pc = "send" /\ reply = ErrorFrame(ERROR_INVALID_PAYLOAD_SIZE)
  /\ state = STATE_IDLE /\ nreplies = 1
  /\ byte < 128
  /\ Len(body) = 2 * Capacity
  /\ Len(rx) = HeaderSize + 1 + 2 * Capacity + 1

\* ---- C17 ----------------------------------------------------------------
\* C17: a received byte >= 0x80 that is neither 0xF0 nor 0xF7 changes, in
\* every parser state, neither the state nor the header position and nibble
\* count, the checksum, the payload size, the buffer or the flash, and
\* starts no reply.
C17_HighBytesIgnored ==
  [][(Consumes /\ byte' >= 128 /\ byte' # SYSEX_START /\ byte' # SYSEX_END)
     => /\ UNCHANGED <<state, bytes_read, checksum, payload_size, msg_buffer,
                       flash, jump, body, nreplies>>
        /\ pc' = "recv" /\ reply' = <<>>]_vars

\* such a byte has arrived between the high and the low nibble of a body
\* byte
C17_Witness ==
  /\ byte >= 128 /\ byte # SYSEX_START /\ byte # SYSEX_END
  /\ state = STATE_READING_BODY
  /\ Len(body) % 2 = 1 /\ Len(body) > 1
  /\ rx[Len(rx)] = byte
  /\ pc = "recv"

\* ---- C18 ----------------------------------------------------------------
\* C18: payload_size never exceeds sizeof(msg.buffer), and whenever the
\* parser is in ReadingBody, where the next nibble is stored at
\* msg.buffer[payload_size], payload_size is below sizeof(msg.buffer).
C18_BufferBounds ==
  /\ payload_size \in 0..(SPM_PAGESIZE + 3)
  /\ state = STATE_READING_BODY => payload_size < SPM_PAGESIZE + 3
  /\ DOMAIN msg_buffer = 0..(SPM_PAGESIZE + 2)

\* a frame longer than the largest message: the buffer was full, one more
\* nibble has arrived and has been refused without being stored
C18_Witness ==
  /\ byte <= 15 /\ state = STATE_IDLE
  /\ payload_size = SPM_PAGESIZE + 3
  /\ Len(body) = 2 * payload_size
  /\ rx = <<SYSEX_START>> \o header \o body \o <<byte>>
  /\ txpos = Len(reply) /\ reply # <<>>

\* ---- C19 ----------------------------------------------------------------
\* this step is a 0xF7 that invokes process_msg(): only that branch of the
\* 0xF7 case assigns payload_size, and it subtracts 2 modulo 2^16
Dispatches ==
  Consumes /\ byte' = SYSEX_END /\ payload_size' # payload_size

\* C19: a 0xF7 invokes process_msg() only with a body in which at least two
\* bytes were decoded; payload_size then goes from their number to exactly
\* that number less 2, without wrapping, and what the dispatcher sees lies
\* in 0..SPM_PAGESIZE+1.  A frame whose one decoded byte is 0x00, so that
\* the running checksum is zero, is not dispatched: it gets
\* Error(InvalidFormat).
C19_DispatchNeedsTwoBytes ==
  [][/\ Dispatches =>
          /\ InBody
          /\ Len(Dec) >= 2 /\ payload_size = Len(Dec)
          /\ payload_size' = payload_size - 2
          /\ payload_size' \in 0..(SPM_PAGESIZE + 1)
     /\ (/\ Consumes /\ byte' = SYSEX_END
         /\ InBody /\ Dec = <<0>> /\ checksum = 0)
        => /\ ~Dispatches
           /\ reply' = ErrorFrame(ERROR_INVALID_FORMAT)
           /\ flash' = flash /\ ~jump']_vars

\* the frame whose one decoded byte is 0x00 has been ended: not dispatched,
\* payload_size still 1
C19_Witness ==
  /\ pc = "send" /\ byte = SYSEX_END
  /\ body = <<0, 0>> /\ checksum = 0
  /\ payload_size = 1
  /\ reply = ErrorFrame(ERROR_INVALID_FORMAT)

\* ---- C20 ----------------------------------------------------------------
\* how many cells of msg.buffer the frame in progress has stored into
Stored == IF InBody THEN (Len(body) + 1) \div 2 ELSE 0

\* the parser with every buffer cell the frame in progress has not stored
\* into holding the value fill
Scrubbed(fill) ==
  [Cur EXCEPT !.buffer =
     [i \in DOMAIN msg_buffer |-> IF i >= Stored THEN fill ELSE msg_buffer[i]]]

\* this step starts the reply, leaves the flash and passes control as the
\* parser r has them after the same byte
SameOutcome(r) ==
  /\ reply' = r.reply
  /\ flash' = r.flash
  /\ jump' = r.jump

\* C20: for every byte of a frame in progress, whatever was received and
\* replied before the frame's 0xF0, the reply the byte starts (none, an
\* Error, Success or Data, or the Error(IncompleteMessage) of the 0xF0 that
\* supersedes the frame) and the flash it leaves are those a bootloader just
\* started on a device with the same flash gives when it receives the same
\* bytes from the 0xF0 on; and they stay the same when every buffer cell
\* that this frame has not stored into holds any other value.
C20_ReplyFromFrameAndFlash ==
  [][(Consumes /\ state # STATE_IDLE) =>
       /\ \A r \in {Feed(Fresh(flash), Append(rx, byte'))} : SameOutcome(r)
       /\ \A fill \in {0, 255} :
            \A r \in {LoopBody(Scrubbed(fill), byte')} : SameOutcome(r)]_vars

\* a Read received from Idle is being answered with the page's image while
\* the last buffer cell still holds a byte of an earlier Write
C20_Witness ==
  /\ pc = "send" /\ byte = SYSEX_END
  /\ start = STATE_IDLE
  /\ rx = Frame(<<COMMAND_READ, 0>>)
  /\ reply = Frame(<<REPLY_READ>> \o PageData)
  /\ msg_buffer[BufferSize - 1] # 0

====
